---- MODULE Spec2Model ----
(***************************************************************************)
(* A model of padfoot's PDF object-graph extraction: PDFTree::new (unfold) *)
(* builds a detached tree from a source lopdf::Document,                   *)
(* PDFTree::link_reference (fold) inserts the tree into a destination      *)
(* document, and burst assembles a one-page document around it.  Further  *)
(* specifications model the commands burst and info over a list of files   *)
(* (SpecBurst, SpecInfo), the parsers of the command line tokens           *)
(* (SpecParse) and the normalisation of the command line of cat and zip    *)
(* (SpecCli).                                                              *)
(*                                                                         *)
(* An lopdf::Object is a record [kind, val]; an ObjectId is modelled by    *)
(* its object number (Document::new_object_id always hands out generation  *)
(* 0).  A Dictionary's val is a sequence of <<key, value>> pairs with      *)
(* distinct keys, in insertion order (a LinkedHashMap).  A Stream's val is *)
(* <<dictionary entries, content>>.                                        *)
(***************************************************************************)
EXTENDS Integers, Sequences, FiniteSets, TLC

VARIABLES doc, pc, oid, tree, seen, log, new, page_id, pages_id, err

(* The state of a run of burst or info: the argument input, the position   *)
(* idx of the docs iterator and pno of the pages iterator, the page_map    *)
(* of get_pages, the page cur = <<idx, no>> the page closure last ran for,  *)
(* the names of the files saved, the errors handed to drop, the lines      *)
(* printed, and the value returned.                                        *)
VARIABLES input, idx, pno, page_map, cur, files, dropped, out, result

cmdvars == <<input, idx, pno, page_map, cur, files, dropped, out, result>>

(* The token given to a parser and what the parser returned *)
VARIABLES token, parsed

parsevars == <<token, parsed>>

(* The command line of cat and zip: the subcommand opt_cmd, the tokens     *)
(* argv as given, inputs (inp.inputs, which normalize_inputs changes), the *)
(* option output, and the Result<Command> of process_options; the paths   *)
(* disk under which Document::load finds a document, and the value loaded  *)
(* of load_docs.                                                           *)
VARIABLES opt_cmd, argv, inputs, output, command, disk, loaded

clivars == <<opt_cmd, argv, inputs, output, command, disk, loaded>>

restvars == <<cmdvars, parsevars, clivars>>

vars == <<doc, pc, oid, tree, seen, log, new, page_id, pages_id, err,
          restvars>>

(* Number of object slots of the source document. *)
MaxObj == 2

(* Depth of nested unfold calls after which the walk is cut off: the call  *)
(* stack of the process.                                                   *)
StackLimit == 12

Ids == 1..MaxObj

----------------------------------------------------------------------------
(* lopdf::Object constructors *)

Null == [kind |-> "Null", val |-> <<>>]

Integer(i) == [kind |-> "Integer", val |-> i]

Name(s) == [kind |-> "Name", val |-> s]

Reference(id) == [kind |-> "Reference", val |-> id]

Array(v) == [kind |-> "Array", val |-> v]

Dictionary(d) == [kind |-> "Dictionary", val |-> d]

Stream(d, c) == [kind |-> "Stream", val |-> <<d, c>>]

(* PDFTree::SubTree: an owned copy of a referenced object *)
SubTree(t) == [kind |-> "SubTree", val |-> t]

(* The walk was cut off at StackLimit: the process overflowed its stack. *)
Overflow == [kind |-> "Overflow", val |-> <<>>]

Scalars == {"Null", "Boolean", "Integer", "Real", "Name", "String"}

----------------------------------------------------------------------------
(* Source documents: every object slot is empty or holds one of these.     *)

(* The payload of a stream: opaque bytes *)
Content == <<104, 105>>

MediaBoxValue == Array(<<Integer(0), Integer(9)>>)

ObjectValues ==
    {Integer(7),
     Array(<<Integer(1), Name("x"), Null>>),
     Dictionary(<< <<"A", Integer(1)>>, <<"B", Integer(2)>>, <<"C", Integer(3)>> >>),
     Stream(<< <<"Length", Integer(1)>> >>, Content)}
    \cup {Reference(a) : a \in Ids}
    \cup {Stream(<< <<"Length", Reference(a)>> >>, Content) : a \in Ids}
    \cup {Array(<<Reference(a), Reference(b)>>) : a \in Ids, b \in Ids}
    \cup {Dictionary(<< <<"Kids", Array(<<Reference(a)>>)>>,
                        <<"Parent", Reference(a)>> >>) : a \in Ids}
    \cup {Dictionary(<< <<"Parent", Reference(a)>>,
                        <<"MediaBox", MediaBoxValue>>,
                        <<"Contents", Reference(b)>> >>)
            : a \in Ids, b \in Ids}
    \cup {Dictionary(<< <<"MediaBox", MediaBoxValue>>,
                        <<"Thumb", Reference(a)>>,
                        <<"Contents", Reference(a)>> >>) : a \in Ids}

(* Document.objects: a map from the ids present to their objects *)
Documents ==
    UNION {[S -> ObjectValues] : S \in SUBSET Ids}

(* Document::get_object *)
has_object(d, id) == id \in DOMAIN d

----------------------------------------------------------------------------
(* PDFTree::unfold.  A result is [tree, seen, log]: the tree, the seen set *)
(* after the call, and the ids looked up by the call, in order.            *)

RECURSIVE unfold(_, _, _, _)
RECURSIVE unfoldArray(_, _, _, _)
RECURSIVE PDFDictionary_new(_, _, _, _)

(* unfoldReference without the seen.contains(oid) test *)
unfoldReference_NoSeenCheck(d, sn, id, depth) ==
    LET sn2 == sn \cup {id}
    IN  IF has_object(d, id)
        THEN LET r == unfold(d, sn2, d[id], depth + 1)
             IN  [tree |-> SubTree(r.tree), seen |-> r.seen,
                  log |-> <<id>> \o r.log]
        ELSE [tree |-> Null, seen |-> sn2, log |-> <<id>>]

(* unfoldReference without the seen.insert of the id *)
unfoldReference_NoSeenInsert(d, sn, id, depth) ==
    IF id \in sn
    THEN [tree |-> Reference(id), seen |-> sn, log |-> <<>>]
    ELSE IF has_object(d, id)
         THEN LET r == unfold(d, sn, d[id], depth + 1)
              IN  [tree |-> SubTree(r.tree), seen |-> r.seen,
                   log |-> <<id>> \o r.log]
         ELSE [tree |-> Null, seen |-> sn, log |-> <<id>>]

(* The Object::Reference arm of unfold *)
unfoldReference(d, sn, id, depth) ==
    IF id \in sn
    THEN [tree |-> Reference(id), seen |-> sn, log |-> <<>>]
    ELSE LET sn2 == sn \cup {id}
         IN  IF has_object(d, id)
             THEN LET r == unfold(d, sn2, d[id], depth + 1)
                  IN  [tree |-> SubTree(r.tree), seen |-> r.seen,
                       log |-> <<id>> \o r.log]
             ELSE [tree |-> Null, seen |-> sn2, log |-> <<id>>]

(* v.iter().map(|x| unfold(doc, seen, x)).collect() *)
unfoldArray(d, sn, v, depth) ==
    IF v = <<>>
    THEN [tree |-> <<>>, seen |-> sn, log |-> <<>>]
    ELSE LET h == unfold(d, sn, Head(v), depth + 1)
             t == unfoldArray(d, h.seen, Tail(v), depth)
         IN  [tree |-> <<h.tree>> \o t.tree, seen |-> t.seen,
              log |-> h.log \o t.log]

(* dictEntry without the "Parent" arm: the parent is unfolded *)
dictEntry_FollowParent(d, sn, key, o, depth) ==
    unfold(d, sn, o, depth + 1)

(* One entry of PDFDictionary::new: "Parent" maps to Null, unvisited *)
dictEntry(d, sn, key, o, depth) ==
    IF key = "Parent"
    THEN [tree |-> Null, seen |-> sn, log |-> <<>>]
    ELSE unfold(d, sn, o, depth + 1)

PDFDictionary_new(d, sn, entries, depth) ==
    IF entries = <<>>
    THEN [tree |-> <<>>, seen |-> sn, log |-> <<>>]
    ELSE LET e == Head(entries)
             h == dictEntry(d, sn, e[1], e[2], depth)
             t == PDFDictionary_new(d, h.seen, Tail(entries), depth)
         IN  [tree |-> << <<e[1], h.tree>> >> \o t.tree, seen |-> t.seen,
              log |-> h.log \o t.log]

unfold(d, sn, o, depth) ==
    IF depth > StackLimit
    THEN [tree |-> Overflow, seen |-> sn, log |-> <<>>]
    ELSE CASE o.kind \in Scalars -> [tree |-> o, seen |-> sn, log |-> <<>>]
           [] o.kind = "Array" ->
                LET r == unfoldArray(d, sn, o.val, depth)
                IN  [tree |-> Array(r.tree), seen |-> r.seen, log |-> r.log]
           [] o.kind = "Dictionary" ->
                LET r == PDFDictionary_new(d, sn, o.val, depth)
                IN  [tree |-> Dictionary(r.tree), seen |-> r.seen, log |-> r.log]
           [] o.kind = "Stream" -> [tree |-> o, seen |-> sn, log |-> <<>>]
           [] o.kind = "Reference" -> unfoldReference(d, sn, o.val, depth)

(* PDFTree::new treating an absent root like an absent reference: Ok(Null) *)
PDFTree_new_NullForAbsent(d, id) ==
    IF has_object(d, id)
    THEN LET r == unfold(d, {id}, d[id], 0)
         IN  [ok |-> TRUE, tree |-> r.tree, seen |-> r.seen, log |-> r.log]
    ELSE [ok |-> TRUE, tree |-> Null, seen |-> {id}, log |-> <<>>]

(* a PDFTree::new that goes on from the seen set of the extraction before *)
PDFTree_new_SharedSeen(d, id) ==
    IF has_object(d, id)
    THEN LET r == unfold(d, seen \cup {id}, d[id], 0)
         IN  [ok |-> TRUE, tree |-> r.tree, seen |-> r.seen, log |-> r.log]
    ELSE [ok |-> FALSE, tree |-> Null, seen |-> {}, log |-> <<>>]

(* The value of PDFTree::new(id, d): Err when the root is absent *)
PDFTree_new(d, id) ==
    IF has_object(d, id)
    THEN LET r == unfold(d, {id}, d[id], 0)
         IN  [ok |-> TRUE, tree |-> r.tree, seen |-> r.seen, log |-> r.log]
    ELSE [ok |-> FALSE, tree |-> Null, seen |-> {}, log |-> <<>>]

----------------------------------------------------------------------------
(* lopdf::Document: [max_id, objects, trailer], and events, the history of *)
(* the ids handed out and inserted: <<"alloc", id>> and                    *)
(* <<"insert", id, whether id was a key of objects before>>.               *)

(* Document::new() *)
EmptyDocument == [max_id |-> 0, objects |-> <<>>, trailer |-> <<>>, events |-> <<>>]

(* new_object_id that forgets to store the incremented max_id *)
new_object_id_NoBump(d) ==
    [id |-> d.max_id + 1,
     doc |-> [d EXCEPT !.events = Append(@, <<"alloc", d.max_id + 1>>)]]

(* Document::new_object_id: max_id += 1; (max_id, 0) *)
new_object_id(d) ==
    [id |-> d.max_id + 1,
     doc |-> [d EXCEPT !.max_id = d.max_id + 1,
                       !.events = Append(@, <<"alloc", d.max_id + 1>>)]]

(* doc.objects.insert(id, object) *)
objects_insert(d, id, o) ==
    [d EXCEPT !.objects = (id :> o) @@ @,
              !.events = Append(@, <<"insert", id, id \in DOMAIN d.objects>>)]

(* Document::add_object: new_object_id, then insert *)
add_object(d, o) ==
    LET a == new_object_id(d)
    IN  [id |-> a.id, doc |-> objects_insert(a.doc, a.id, o)]

(* Dictionary::set that puts the entry in front *)
dict_set_Front(entries, key, value) ==
    << <<key, value>> >> \o SelectSeq(entries, LAMBDA e : e[1] # key)

(* Dictionary::set on the LinkedHashMap: a key already present is moved to *)
(* the end with the new value, a new key is appended.                      *)
dict_set(entries, key, value) ==
    SelectSeq(entries, LAMBDA e : e[1] # key) \o << <<key, value>> >>

(* Dictionary::get *)
dict_has(entries, key) == \E i \in 1..Len(entries) : entries[i][1] = key

dict_get(entries, key) ==
    entries[CHOOSE i \in 1..Len(entries) : entries[i][1] = key][2]

----------------------------------------------------------------------------
(* PDFTree::fold and PDFTree::link_reference.  A fold result is            *)
(* [obj, doc]; a link_reference result is [id, doc].  first is TRUE for    *)
(* tree.rs, which takes the new id before folding, and FALSE for the       *)
(* pdf/mod.rs variant, which folds and then calls add_object.              *)

RECURSIVE fold(_, _, _)
RECURSIVE foldArray(_, _, _)
RECURSIVE PDFDictionary_fold(_, _, _)

(* tree.rs: new_object_id, fold, objects.insert *)
link_reference(t, d, first) ==
    IF first
    THEN LET a == new_object_id(d)
             r == fold(t, a.doc, first)
         IN  [id |-> a.id, doc |-> objects_insert(r.doc, a.id, r.obj)]
    ELSE LET r == fold(t, d, first)
         IN  add_object(r.doc, r.obj)

foldArray(v, d, first) ==
    IF v = <<>>
    THEN [obj |-> <<>>, doc |-> d]
    ELSE LET h == fold(Head(v), d, first)
             t == foldArray(Tail(v), h.doc, first)
         IN  [obj |-> <<h.obj>> \o t.obj, doc |-> t.doc]

PDFDictionary_fold(entries, d, first) ==
    IF entries = <<>>
    THEN [obj |-> <<>>, doc |-> d]
    ELSE LET n == Len(entries)
             i == PDFDictionary_fold(SubSeq(entries, 1, n - 1), d, first)
             l == fold(entries[n][2], i.doc, first)
         IN  [obj |-> dict_set(i.obj, entries[n][1], l.obj), doc |-> l.doc]

(* The PDFTree::SubTree arm of fold *)
foldSubTree(t, d, first) ==
    LET r == link_reference(t, d, first)
    IN  [obj |-> Reference(r.id), doc |-> r.doc]

(* The PDFTree::Reference arm of fold: the id of the source document *)
foldReference(id, d) == [obj |-> Reference(id), doc |-> d]

fold(t, d, first) ==
    CASE t.kind \in Scalars -> [obj |-> t, doc |-> d]
      [] t.kind = "Array" ->
           LET r == foldArray(t.val, d, first)
           IN  [obj |-> Array(r.obj), doc |-> r.doc]
      [] t.kind = "Dictionary" ->
           LET r == PDFDictionary_fold(t.val, d, first)
           IN  [obj |-> Dictionary(r.obj), doc |-> r.doc]
      [] t.kind = "Stream" -> [obj |-> t, doc |-> d]
      [] t.kind = "Reference" -> foldReference(t.val, d)
      [] t.kind = "SubTree" -> foldSubTree(t.val, d, first)
      [] t.kind = "Overflow" -> [obj |-> t, doc |-> d]

----------------------------------------------------------------------------
(* burst: the closure run for one page (no, oid) of doc.get_pages().       *)

(* Stream::compress: a stream without Filter is deflated when that makes   *)
(* it shorter (shrinks); set_content also rewrites Length.                 *)
deflate(c) == <<120, 156>> \o c

(* a compress that deflates the payload and leaves the dictionary alone *)
stream_compress_NoFilter(o, shrinks) ==
    IF o.kind = "Stream" /\ ~dict_has(o.val[1], "Filter") /\ shrinks
    THEN Stream(o.val[1], deflate(o.val[2]))
    ELSE o

stream_compress(o, shrinks) ==
    IF o.kind = "Stream" /\ ~dict_has(o.val[1], "Filter") /\ shrinks
    THEN Stream(dict_set(dict_set(o.val[1], "Filter", Name("FlateDecode")),
                         "Length", Integer(Len(deflate(o.val[2])))),
                deflate(o.val[2]))
    ELSE o

(* Document::compress: every stream object of the document *)
compress(d, shrinks) ==
    [d EXCEPT !.objects = [i \in DOMAIN @ |-> stream_compress(@[i], shrinks)]]

(* burst without the d.set("Parent", pages_id) *)
set_parent_Skip(d, page, pages) == d

(* new.get_object_mut(page_id).and_then(Object::as_dict_mut)               *)
(*    .map(|d| d.set("Parent", pages_id))                                  *)
set_parent(d, page, pages) ==
    IF page \in DOMAIN d.objects /\ d.objects[page].kind = "Dictionary"
    THEN [d EXCEPT !.objects[page] =
             Dictionary(dict_set(@.val, "Parent", Reference(pages)))]
    ELSE d

BurstErr(msg, pages) ==
    [ok |-> FALSE, err |-> msg, new |-> EmptyDocument, tree |-> Null,
     seen |-> {}, log |-> <<>>, page_id |-> 0, pages_id |-> pages]

(* a lookup that answers Null for a page without the key *)
get_media_box_OrNull(page_d) ==
    IF dict_has(page_d, "MediaBox")
    THEN [ok |-> TRUE, val |-> dict_get(page_d, "MediaBox")]
    ELSE [ok |-> TRUE, val |-> Null]

(* old_page_d.get("MediaBox"): the key of the page's own dictionary *)
get_media_box(page_d) ==
    IF dict_has(page_d, "MediaBox")
    THEN [ok |-> TRUE, val |-> dict_get(page_d, "MediaBox")]
    ELSE [ok |-> FALSE, val |-> Null]

burst_page(d, id, shrinks, save_ok) ==
    LET a == new_object_id(EmptyDocument)
    IN  IF ~(has_object(d, id) /\ d[id].kind = "Dictionary")
        THEN BurstErr("Couldn't locate page dictionary", a.id)
        ELSE IF ~get_media_box(d[id].val).ok
        THEN BurstErr("Couldn't get media box", a.id)
        ELSE
        LET media_box == get_media_box(d[id].val).val
            new_page == PDFTree_new(d, id)
        IN  IF ~new_page.ok
            THEN BurstErr("Couldn't locate page object", a.id)
            ELSE
            LET l == link_reference(new_page.tree, a.doc, TRUE)
                pages == Dictionary(<< <<"Type", Name("Pages")>>,
                                       <<"Kids", Array(<<Reference(l.id)>>)>>,
                                       <<"Count", Integer(1)>>,
                                       <<"MediaBox", media_box>> >>)
                n1 == objects_insert(l.doc, a.id, pages)
                n2 == set_parent(n1, l.id, a.id)
                c == add_object(n2, Dictionary(<< <<"Type", Name("Catalog")>>,
                                                  <<"Pages", Reference(a.id)>> >>))
                n3 == [c.doc EXCEPT !.trailer = dict_set(@, "Root", Reference(c.id))]
                n4 == compress(n3, shrinks)
            IN  [ok |-> save_ok,
                 err |-> IF save_ok THEN "" ELSE "Couldn't save file",
                 new |-> n4, tree |-> new_page.tree, seen |-> new_page.seen,
                 log |-> new_page.log, page_id |-> l.id, pages_id |-> a.id]

----------------------------------------------------------------------------
(* No command is running *)
CmdIdle ==
    /\ input = <<>>
    /\ idx = 0
    /\ pno = 0
    /\ page_map = <<>>
    /\ cur = <<>>
    /\ files = <<>>
    /\ dropped = <<>>
    /\ out = <<>>
    /\ result = ""

(* No parser has run *)
ParseIdle ==
    /\ token = <<>>
    /\ parsed = <<>>

(* No command line has been processed *)
CliIdle ==
    /\ opt_cmd = ""
    /\ argv = <<>>
    /\ inputs = <<>>
    /\ output = <<>>
    /\ command = <<>>
    /\ disk = {}
    /\ loaded = <<>>

(* No tree has been built *)
TreeIdle ==
    /\ oid = 0
    /\ tree = Null
    /\ seen = {}
    /\ log = <<>>
    /\ new = EmptyDocument
    /\ page_id = 0
    /\ pages_id = 0
    /\ err = ""

Init ==
    /\ doc \in Documents
    /\ pc = "loaded"
    /\ TreeIdle
    /\ CmdIdle
    /\ ParseIdle
    /\ CliIdle

(* PDFTree::new(id, &doc) *)
New(id) ==
    /\ pc = "loaded"
    /\ \E r \in {PDFTree_new(doc, id)} :
           /\ pc' = IF r.ok THEN "tree" ELSE "err"
           /\ err' = IF r.ok THEN "" ELSE "Couldn't locate page object"
           /\ tree' = r.tree
           /\ seen' = r.seen
           /\ log' = r.log
    /\ oid' = id
    /\ UNCHANGED <<doc, new, page_id, pages_id, restvars>>

(* tree.link_reference(&mut new) into a fresh, empty document (tree.rs) *)
LinkReference ==
    /\ pc = "tree"
    /\ \E r \in {link_reference(tree, EmptyDocument, TRUE)} :
           /\ new' = r.doc
           /\ page_id' = r.id
    /\ pc' = "linked"
    /\ UNCHANGED <<doc, oid, tree, seen, log, pages_id, err, restvars>>

(* The same with the link_reference of pdf/mod.rs *)
LinkReferenceAddObject ==
    /\ pc = "tree"
    /\ \E r \in {link_reference(tree, EmptyDocument, FALSE)} :
           /\ new' = r.doc
           /\ page_id' = r.id
    /\ pc' = "linked_add"
    /\ UNCHANGED <<doc, oid, tree, seen, log, pages_id, err, restvars>>

(* The pages of doc.get_pages(): lopdf lists the ids of dictionary objects *)
PageIds(d) == {id \in DOMAIN d : d[id].kind = "Dictionary"}

(* One page of burst, up to new.save(new_name) *)
BurstPage(id, shrinks, save_ok) ==
    /\ pc = "loaded"
    /\ id \in PageIds(doc)
    /\ \E r \in {burst_page(doc, id, shrinks, save_ok)} :
           /\ pc' = IF r.ok THEN "saved" ELSE "page_err"
           /\ err' = r.err
           /\ new' = r.new
           /\ tree' = r.tree
           /\ seen' = r.seen
           /\ log' = r.log
           /\ page_id' = r.page_id
           /\ pages_id' = r.pages_id
    /\ oid' = id
    /\ UNCHANGED <<doc, restvars>>

Next ==
    \/ \E id \in Ids : New(id)
    \/ LinkReference
    \/ LinkReferenceAddObject
    \/ \E id \in Ids, shrinks \in BOOLEAN, save_ok \in BOOLEAN :
          BurstPage(id, shrinks, save_ok)

Spec == Init /\ [][Next]_vars

----------------------------------------------------------------------------
(* The commands burst and info over a list of files.                       *)

(* Largest number of pages of a file *)
MaxPages == 12

(* A PDFName with what the disk holds under it: whether Document::load      *)
(* succeeds, the number n of pages, the page nomb whose own dictionary has *)
(* no MediaBox (0: none), the page fail whose new.save fails (0: none) and *)
(* the shape info of the trailer's Info entry.                             *)
PDFName(stem, loads, n, nomb, fail, info) ==
    [stem |-> stem, loads |-> loads, n |-> n, nomb |-> nomb, fail |-> fail,
     info |-> info]

(* The objects of the file: pages 1..n, their Pages node n+1 (which has a  *)
(* MediaBox), the Catalog n+2, the Resources n+3 every page names, and for *)
(* the Info entry n+4 and n+5.                                             *)
PageObject(f, i) ==
    Dictionary(<< <<"Type", Name("Page")>>, <<"Parent", Reference(f.n + 1)>> >>
               \o (IF i = f.nomb THEN <<>>
                   ELSE << <<"MediaBox", MediaBoxValue>> >>)
               \o << <<"Resources", Reference(f.n + 3)>> >>)

ResourcesObject(f) ==
    Dictionary(<< <<"ProcSet", Array(<<Name("PDF"), Name("Text")>>)>> >>)

PagesObject(f) ==
    Dictionary(<< <<"Type", Name("Pages")>>,
                  <<"Kids", Array([i \in 1..f.n |-> Reference(i)])>>,
                  <<"Count", Integer(f.n)>>,
                  <<"MediaBox", MediaBoxValue>> >>)

CatalogObject(f) ==
    Dictionary(<< <<"Type", Name("Catalog")>>,
                  <<"Pages", Reference(f.n + 1)>> >>)

InfoObjects(f) ==
    CASE f.info = "plain" ->
           <<Dictionary(<< <<"Title", Name("T")>>, <<"Rev", Integer(42)>> >>)>>
      [] f.info = "ref" ->
           <<Dictionary(<< <<"Title", Reference(f.n + 5)>>,
                           <<"Rev", Integer(42)>> >>),
             Array(<<Integer(7), Null, Integer(10)>>)>>
      [] f.info = "missing" ->
           <<Dictionary(<< <<"Title", Reference(f.n + 6)>>,
                           <<"Rev", Integer(42)>> >>)>>
      [] f.info = "dict" ->
           <<Dictionary(<< <<"Title", Dictionary(<<>>)>>,
                           <<"Rev", Integer(42)>> >>)>>
      [] f.info = "cycle" ->
           <<Dictionary(<< <<"Title", Reference(f.n + 5)>>,
                           <<"Rev", Integer(42)>> >>),
             Array(<<Integer(7), Reference(f.n + 5)>>)>>
      [] f.info = "notdict" -> <<Integer(7)>>
      [] OTHER -> <<>>

FileObjects(f) ==
    [i \in 1..f.n |-> PageObject(f, i)]
      \o <<PagesObject(f), CatalogObject(f), ResourcesObject(f)>>
      \o InfoObjects(f)

FileTrailer(f) ==
    << <<"Root", Reference(f.n + 2)>> >>
      \o (CASE f.info = "none" -> <<>>
            [] f.info = "direct" -> << <<"Info", Dictionary(<<>>)>> >>
            [] OTHER -> << <<"Info", Reference(f.n + 4)>> >>)

(* PDFName::load_doc: Document::load, any error as "Couldn't load document" *)
load_doc(f) ==
    [ok |-> f.loads, objects |-> FileObjects(f), trailer |-> FileTrailer(f)]

(* Document::get_pages: the page objects under the trailer's Root, in      *)
(* order, numbered from 1.                                                 *)
get_pages(d) ==
    IF /\ dict_has(d.trailer, "Root")
       /\ dict_get(d.trailer, "Root").kind = "Reference"
       /\ dict_get(d.trailer, "Root").val \in DOMAIN d.objects
    THEN LET catalog == d.objects[dict_get(d.trailer, "Root").val]
             node == d.objects[dict_get(catalog.val, "Pages").val]
             kids == dict_get(node.val, "Kids").val
         IN  [no \in 1..Len(kids) |-> kids[no].val]
    ELSE <<>>

(* page_range: the least and greatest key of get_pages *)
page_range(pm) ==
    IF DOMAIN pm = {}
    THEN [ok |-> FALSE, err |-> "No pages in pdf", s |-> 0, e |-> 0]
    ELSE [ok |-> TRUE, err |-> "",
          s |-> CHOOSE k \in DOMAIN pm : \A j \in DOMAIN pm : k <= j,
          e |-> CHOOSE k \in DOMAIN pm : \A j \in DOMAIN pm : k >= j]

(* f64::ceil(f64::log10(n as f64)) as usize, for n >= 1: the least w with  *)
(* 10^w >= n.                                                              *)
RECURSIVE ceil_log10_from(_, _, _)
ceil_log10_from(n, w, p) ==
    IF p >= n THEN w ELSE ceil_log10_from(n, w + 1, p * 10)

ceil_log10(n) == ceil_log10_from(n, 0, 1)

(* Display of an unsigned integer: its decimal digits *)
DigitChars == <<"0", "1", "2", "3", "4", "5", "6", "7", "8", "9">>

RECURSIVE format(_)
format(n) ==
    IF n < 10 THEN <<DigitChars[n + 1]>>
    ELSE format(n \div 10) \o <<DigitChars[(n % 10) + 1]>>

(* {:0width$}: zeros in front while shorter than width *)
RECURSIVE zero_pad(_, _)
zero_pad(digits, width) ==
    IF Len(digits) >= width THEN digits ELSE zero_pad(<<"0">> \o digits, width)

(* write!(new_name, "{}_{:0width$}.pdf", name_prefix, no, width) *)
new_name(name_prefix, no, width) ==
    <<name_prefix, "_">> \o zero_pad(format(no), width) \o <<".pdf">>

(* The files burst is run on: one file of every shape, alone, or next to   *)
(* a small second file.                                                    *)
BurstFiles ==
    {PDFName("report", TRUE, n, nomb, fail, "none") :
        n \in 0..MaxPages, nomb \in 0..MaxPages, fail \in 0..MaxPages}

SideFiles ==
    {PDFName("b", FALSE, 0, 0, 0, "none"), PDFName("b", TRUE, 1, 0, 0, "none"),
     PDFName("b", TRUE, 1, 1, 0, "none")}

BurstInputs ==
    LET M == {f \in BurstFiles : f.nomb <= f.n /\ f.fail <= f.n}
    IN  {<<>>} \cup {<<f>> : f \in M}
          \cup {<<f, g>> : f \in M, g \in SideFiles}
          \cup {<<g, f>> : f \in M, g \in SideFiles}

InitBurst ==
    /\ input \in BurstInputs
    /\ idx = 1
    /\ pc = "burst"
    /\ doc = <<>>
    /\ TreeIdle
    /\ pno = 0
    /\ page_map = <<>>
    /\ cur = <<>>
    /\ files = <<>>
    /\ dropped = <<>>
    /\ out = <<>>
    /\ result = ""
    /\ ParseIdle
    /\ CliIdle

(* The closure of docs.map: the next file that loads, up to the iteration  *)
(* of its pages.  filter_map passes over a file that does not load; the    *)
(* error of page_range is the closure's result, which for_each drops.      *)
BurstDoc ==
    /\ pc = "burst"
    /\ idx <= Len(input)
    /\ \E r \in {load_doc(input[idx])} :
         IF ~r.ok
         THEN /\ idx' = idx + 1
              /\ UNCHANGED <<pc, doc, pno, page_map, dropped, out>>
         ELSE IF ~page_range(get_pages(r)).ok
         THEN /\ idx' = idx + 1
              /\ doc' = r.objects
              /\ page_map' = get_pages(r)
              /\ out' = Append(out, <<"File", input[idx].stem>>)
              /\ dropped' = Append(dropped, page_range(get_pages(r)).err)
              /\ UNCHANGED <<pc, pno>>
         ELSE /\ pc' = "burst_pages"
              /\ doc' = r.objects
              /\ page_map' = get_pages(r)
              /\ pno' = 1
              /\ out' = Append(out, <<"File", input[idx].stem>>)
              /\ UNCHANGED <<idx, dropped>>
    /\ UNCHANGED <<oid, tree, seen, log, new, page_id, pages_id, err, input,
                   cur, files, result, parsevars, clivars>>

(* The closure of pages.iter().map for the page (no, oid), whose result    *)
(* for_each drops; after the last page the docs closure returns Ok.        *)
BurstPages(shrinks) ==
    /\ pc = "burst_pages"
    /\ LET name == input[idx]
           no == pno
           pp == page_range(page_map)
           max_pages == pp.e + 1 - pp.s
           print_suffix_width == ceil_log10(max_pages)
       IN  \E r \in {burst_page(doc, page_map[no], shrinks, name.fail # no)} :
             /\ oid' = page_map[no]
             /\ cur' = <<idx, no>>
             /\ out' = Append(out, <<"Page", no>>)
             /\ err' = r.err
             /\ new' = r.new
             /\ tree' = r.tree
             /\ seen' = r.seen
             /\ log' = r.log
             /\ page_id' = r.page_id
             /\ pages_id' = r.pages_id
             /\ files' = IF r.ok
                         THEN Append(files, new_name(name.stem, no,
                                                     print_suffix_width))
                         ELSE files
             /\ dropped' = IF r.ok THEN dropped ELSE Append(dropped, r.err)
    /\ IF pno < Len(page_map)
       THEN pno' = pno + 1 /\ UNCHANGED <<pc, idx>>
       ELSE pno' = 0 /\ pc' = "burst" /\ idx' = idx + 1
    /\ UNCHANGED <<doc, input, page_map, result, parsevars, clivars>>

(* docs is exhausted: Ok(()) *)
BurstReturn ==
    /\ pc = "burst"
    /\ idx > Len(input)
    /\ pc' = "returned"
    /\ result' = "Ok"
    /\ UNCHANGED <<doc, oid, tree, seen, log, new, page_id, pages_id, err,
                   input, idx, pno, page_map, cur, files, dropped, out,
                   parsevars, clivars>>

NextBurst ==
    \/ BurstDoc
    \/ \E shrinks \in BOOLEAN : BurstPages(shrinks)
    \/ BurstReturn

SpecBurst == InitBurst /\ [][NextBurst]_vars

----------------------------------------------------------------------------
(* info *)

(* Longest list of files given to info *)
MaxInputs == 2

RECURSIVE join(_, _)
join(strs, sep) ==
    IF strs = <<>> THEN <<>>
    ELSE IF Len(strs) = 1 THEN strs[1]
    ELSE strs[1] \o sep \o join(Tail(strs), sep)

(* simple_display_object: [st, s], st = "Ok" with the string s, "Err", or  *)
(* "Overflow" when the nested calls exhaust the stack of the process.      *)
RECURSIVE simple_display_object(_, _, _)
RECURSIVE display_elements(_, _, _)

display_elements(d, v, depth) ==
    IF v = <<>> THEN <<>>
    ELSE <<simple_display_object(d, Head(v), depth)>>
           \o display_elements(d, Tail(v), depth)

simple_display_object(d, o, depth) ==
    IF depth > StackLimit THEN [st |-> "Overflow", s |-> <<>>]
    ELSE
    CASE o.kind = "Null" -> [st |-> "Ok", s |-> <<>>]
      [] o.kind = "Integer" -> [st |-> "Ok", s |-> format(o.val)]
      [] o.kind = "Name" -> [st |-> "Ok", s |-> <<o.val>>]
      [] o.kind = "Array" ->
           LET rs == display_elements(d, o.val, depth + 1)
               oks == SelectSeq(rs, LAMBDA r : r.st = "Ok")
           IN  IF \E i \in DOMAIN rs : rs[i].st = "Overflow"
               THEN [st |-> "Overflow", s |-> <<>>]
               ELSE [st |-> "Ok",
                     s |-> join([i \in DOMAIN oks |-> oks[i].s], <<",", "\n">>)]
      [] o.kind = "Dictionary" -> [st |-> "Err", s |-> <<"Dictionary">>]
      [] o.kind = "Stream" -> [st |-> "Err", s |-> <<"Stream">>]
      [] o.kind = "Reference" ->
           IF o.val \in DOMAIN d.objects
           THEN simple_display_object(d, d.objects[o.val], depth + 1)
           ELSE [st |-> "Err", s |-> <<"Couldn't follow reference">>]

(* get_trail_info: the entries of the dictionary the trailer's Info names *)
get_trail_info(d) ==
    IF ~(dict_has(d.trailer, "Info")
         /\ dict_get(d.trailer, "Info").kind = "Reference")
    THEN [ok |-> FALSE, err |-> "Couldn't identify pdf info", entries |-> <<>>]
    ELSE IF ~(dict_get(d.trailer, "Info").val \in DOMAIN d.objects
              /\ d.objects[dict_get(d.trailer, "Info").val].kind = "Dictionary")
    THEN [ok |-> FALSE, err |-> "Couldn't access pdf info", entries |-> <<>>]
    ELSE [ok |-> TRUE, err |-> "",
          entries |-> d.objects[dict_get(d.trailer, "Info").val].val]

(* The closure of docs.map in info for the loaded document d of the file   *)
(* stem: [st, err, lines], the lines printed up to the return, the error   *)
(* or the overflow.                                                        *)
info_doc(stem, d) ==
    LET head == << <<"File", stem>> >>
        i == get_trail_info(d)
        ds == [k \in DOMAIN i.entries |->
                 simple_display_object(d, i.entries[k][2], 0)]
        shown == SelectSeq([k \in DOMAIN ds |-> <<i.entries[k][1], ds[k]>>],
                           LAMBDA e : e[2].st = "Ok")
        body == head \o [k \in DOMAIN shown |-> <<shown[k][1], shown[k][2].s>>]
        p == page_range(get_pages(d))
    IN  IF ~i.ok THEN [st |-> "Err", err |-> i.err, lines |-> head]
        ELSE IF \E k \in DOMAIN ds : ds[k].st = "Overflow"
        THEN [st |-> "Overflow", err |-> "", lines |-> head]
        ELSE IF ~p.ok THEN [st |-> "Err", err |-> p.err, lines |-> body]
        ELSE [st |-> "Ok", err |-> "",
              lines |-> Append(body, <<"Pages", format(p.s), format(p.e)>>)]

InfoKinds ==
    {"none", "direct", "notdict", "plain", "ref", "missing", "dict", "cycle"}

InfoFiles ==
    {PDFName(stem, FALSE, 0, 0, 0, "none") : stem \in {"a", "b"}}
      \cup {PDFName(stem, TRUE, n, 0, 0, k) :
               stem \in {"a", "b"}, n \in {0, 2}, k \in InfoKinds}

InfoInputs == UNION {[1..m -> InfoFiles] : m \in 0..MaxInputs}

InitInfo ==
    /\ input \in InfoInputs
    /\ idx = 1
    /\ pc = "info"
    /\ doc = <<>>
    /\ TreeIdle
    /\ pno = 0
    /\ page_map = <<>>
    /\ cur = <<>>
    /\ files = <<>>
    /\ dropped = <<>>
    /\ out = <<>>
    /\ result = ""
    /\ ParseIdle
    /\ CliIdle

(* The next file: filter_map passes over one that does not load; the       *)
(* closure runs for one that loads and for_each drops its result.  A stack *)
(* overflow ends the process.                                              *)
InfoDoc ==
    /\ pc = "info"
    /\ idx <= Len(input)
    /\ \E l \in {load_doc(input[idx])} :
         IF ~l.ok
         THEN /\ idx' = idx + 1
              /\ UNCHANGED <<pc, dropped, out>>
         ELSE \E r \in {info_doc(input[idx].stem, l)} :
                /\ out' = out \o r.lines
                /\ dropped' = IF r.st = "Err" THEN Append(dropped, r.err)
                              ELSE dropped
                /\ IF r.st = "Overflow"
                   THEN pc' = "crashed" /\ UNCHANGED idx
                   ELSE idx' = idx + 1 /\ UNCHANGED pc
    /\ UNCHANGED <<doc, oid, tree, seen, log, new, page_id, pages_id, err,
                   input, pno, page_map, cur, files, result, parsevars, clivars>>

(* docs is exhausted: Ok(()) *)
InfoReturn ==
    /\ pc = "info"
    /\ idx > Len(input)
    /\ pc' = "returned"
    /\ result' = "Ok"
    /\ UNCHANGED <<doc, oid, tree, seen, log, new, page_id, pages_id, err,
                   input, idx, pno, page_map, cur, files, dropped, out,
                   parsevars, clivars>>

NextInfo == InfoDoc \/ InfoReturn

SpecInfo == InitInfo /\ [][NextInfo]_vars

----------------------------------------------------------------------------
(* The parsers of the command line tokens.  A &str is the sequence of its  *)
(* characters.  A parser returns [ok, eaten, val, rest]: whether it        *)
(* succeeded, whether it consumed input before failing, its value and the  *)
(* input left.                                                             *)

(* Longest token made of the characters of Alphabet, and the largest       *)
(* number rendered into a token.                                           *)
MaxTokLen == 4

MaxNum == 12

Alphabet == {"0", "3", "-", "a", "b", "c", "."}

POk(v, rest) == [ok |-> TRUE, eaten |-> TRUE, val |-> v, rest |-> rest]

PFail(eaten) == [ok |-> FALSE, eaten |-> eaten, val |-> <<>>, rest |-> <<>>]

(* InputElement *)
File(path) == [kind |-> "File", val |-> path]

PageRange(f, t) == [kind |-> "PageRange", val |-> <<f, t>>]

(* digit() *)
is_digit(c) == \E d \in DOMAIN DigitChars : DigitChars[d] = c

digit_value(c) == (CHOOSE d \in DOMAIN DigitChars : DigitChars[d] = c) - 1

(* many1(digit()): the longest prefix of digits *)
RECURSIVE many_digits(_)
many_digits(i) ==
    IF i # <<>> /\ is_digit(Head(i))
    THEN <<Head(i)>> \o many_digits(Tail(i))
    ELSE <<>>

(* usize::from_str of a string of digits *)
RECURSIVE from_str(_)
from_str(ds) ==
    IF ds = <<>> THEN 0
    ELSE from_str(SubSeq(ds, 1, Len(ds) - 1)) * 10 + digit_value(ds[Len(ds)])

(* number: from_str(many1(digit())) *)
number(i) ==
    LET ds == many_digits(i)
    IN  IF ds = <<>> THEN PFail(FALSE)
        ELSE POk(from_str(ds), SubSeq(i, Len(ds) + 1, Len(i)))

(* char('-').with(number()) *)
dash_number(i) ==
    IF i = <<>> \/ Head(i) # "-" THEN PFail(FALSE)
    ELSE LET t == number(Tail(i))
         IN  IF t.ok THEN t ELSE PFail(TRUE)

(* an inclusive_range that refuses a range that runs backwards *)
inclusive_range_Ordered(i) ==
    LET f == number(i)
    IN  IF f.ok
        THEN LET t == dash_number(f.rest)
             IN  IF t.ok
                 THEN IF f.val <= t.val THEN POk(<<f.val, t.val>>, t.rest)
                      ELSE PFail(TRUE)
                 ELSE IF t.eaten THEN PFail(TRUE)
                 ELSE POk(<<f.val, f.val>>, f.rest)
        ELSE LET x == dash_number(i)
             IN  IF x.ok THEN POk(<<1, x.val>>, x.rest) ELSE x

(* inclusive_range: choice!(number().and(optional(char('-').with(number()))), *)
(* char('-').with(number())).  optional gives None when its parser fails   *)
(* without consuming and fails when its parser fails after consuming;      *)
(* choice tries the second parser when the first fails without consuming.  *)
inclusive_range(i) ==
    LET f == number(i)
    IN  IF f.ok
        THEN LET t == dash_number(f.rest)
             IN  IF t.ok THEN POk(<<f.val, t.val>>, t.rest)
                 ELSE IF t.eaten THEN PFail(TRUE)
                 ELSE POk(<<f.val, f.val>>, f.rest)
        ELSE LET x == dash_number(i)
             IN  IF x.ok THEN POk(<<1, x.val>>, x.rest) ELSE x

(* a path_buf that refuses a token with a dash in it *)
path_buf_NoDash(i) ==
    IF i = <<>> \/ (\E k \in DOMAIN i : i[k] = "-") THEN PFail(FALSE)
    ELSE POk(i, <<>>)

(* path_buf: many1(any()) *)
path_buf(i) == IF i = <<>> THEN PFail(FALSE) ELSE POk(i, <<>>)

(* input_element: choice!(try(inclusive_range()).map(PageRange),           *)
(* path_buf().map(File)); try makes every failure one without consuming.   *)
input_element(i) ==
    LET r == inclusive_range(i)
    IN  IF r.ok THEN POk(PageRange(r.val[1], r.val[2]), r.rest)
        ELSE LET q == path_buf(i)
             IN  IF q.ok THEN POk(File(q.val), q.rest) ELSE PFail(FALSE)

(* parse_input_element: the value of input_element().parse(i), the rest of *)
(* the input dropped                                                       *)
parse_input_element(i) ==
    LET r == input_element(i)
    IN  IF r.ok THEN [ok |-> TRUE, val |-> r.val]
        ELSE [ok |-> FALSE, val |-> "Couldn't parse input element"]

(* The tokens: every string over Alphabet up to MaxTokLen, and the         *)
(* renderings n, n-m and -m of the numbers up to MaxNum.                   *)
Tokens ==
    UNION {[1..k -> Alphabet] : k \in 0..MaxTokLen}
      \cup {format(n) : n \in 0..MaxNum}
      \cup {<<"-">> \o format(n) : n \in 0..MaxNum}
      \cup {format(n) \o <<"-">> \o format(m) : n \in 0..MaxNum, m \in 0..MaxNum}

InitParse ==
    /\ token \in Tokens
    /\ parsed = <<>>
    /\ pc = "token"
    /\ doc = <<>>
    /\ TreeIdle
    /\ CmdIdle
    /\ CliIdle

(* number().parse(token) *)
ParseNumber ==
    /\ pc = "token"
    /\ parsed' = number(token)
    /\ pc' = "number"
    /\ UNCHANGED <<doc, oid, tree, seen, log, new, page_id, pages_id, err,
                   cmdvars, token, clivars>>

(* inclusive_range().parse(token) *)
ParseInclusiveRange ==
    /\ pc = "token"
    /\ parsed' = inclusive_range(token)
    /\ pc' = "inclusive_range"
    /\ UNCHANGED <<doc, oid, tree, seen, log, new, page_id, pages_id, err,
                   cmdvars, token, clivars>>

(* parse_input_element(token) *)
ParseInputElement ==
    /\ pc = "token"
    /\ parsed' = parse_input_element(token)
    /\ pc' = "input_element"
    /\ UNCHANGED <<doc, oid, tree, seen, log, new, page_id, pages_id, err,
                   cmdvars, token, clivars>>

NextParse == ParseNumber \/ ParseInclusiveRange \/ ParseInputElement

SpecParse == InitParse /\ [][NextParse]_vars

----------------------------------------------------------------------------
(* cat and zip: process_options, normalize_inputs, group_inputs, padfoot.  *)
(* An Option is <<>> (None) or <<x>> (Some(x)).                            *)

(* Longest list of input tokens, and the number of pages of a source *)
MaxArgs == 3

SourcePages == 2

Paths == {"a", "b", "out"}

InputElements ==
    {File(p) : p \in Paths}
      \cup {PageRange(1, 2), PageRange(2, 2), PageRange(2, 1)}

ArgLists == UNION {[1..k -> InputElements] : k \in 0..MaxArgs}

(* PDFPages::new and PDFPages::push_range *)
PDFPages_new(name) == [file |-> name, page_ranges |-> <<>>]

push_range(l, range) == [l EXCEPT !.page_ranges = Append(@, range)]

(* group_inputs: input_algebra folded over the tokens from Ok(vec![]).     *)
(* z.last_mut() is None while no file has been pushed.                     *)
input_algebra(z, i) ==
    IF i.kind = "File" THEN Append(z, PDFPages_new(i.val))
    ELSE IF z = <<>> THEN z
    ELSE [z EXCEPT ![Len(z)] = push_range(@, i.val)]

RECURSIVE fold_inputs(_, _)
fold_inputs(z, is) ==
    IF is = <<>> THEN z ELSE fold_inputs(input_algebra(z, Head(is)), Tail(is))

group_inputs(is) == [ok |-> TRUE, val |-> fold_inputs(<<>>, is)]

(* a pop that reads the last token and leaves it in the list *)
pop_outfile_Keep(ins) ==
    IF ins = <<>>
    THEN [ok |-> FALSE, err |-> "No input supplied.", outfile |-> "",
          inputs |-> ins]
    ELSE IF ins[Len(ins)].kind = "File"
    THEN [ok |-> TRUE, err |-> "", outfile |-> ins[Len(ins)].val,
          inputs |-> ins]
    ELSE [ok |-> FALSE,
          err |-> "The arguments must finish with an output file name.",
          outfile |-> "", inputs |-> ins]

(* inputs.pop().ok_or_else("No input supplied.").and_then(match File ...) *)
pop_outfile(ins) ==
    IF ins = <<>>
    THEN [ok |-> FALSE, err |-> "No input supplied.", outfile |-> "",
          inputs |-> ins]
    ELSE IF ins[Len(ins)].kind = "File"
    THEN [ok |-> TRUE, err |-> "", outfile |-> ins[Len(ins)].val,
          inputs |-> SubSeq(ins, 1, Len(ins) - 1)]
    ELSE [ok |-> FALSE,
          err |-> "The arguments must finish with an output file name.",
          outfile |-> "", inputs |-> SubSeq(ins, 1, Len(ins) - 1)]

(* normalize_inputs(inp, output, f): [ok, val, inputs], val the Command or *)
(* the error, inputs what is left in inp.inputs.                           *)
normalize_inputs(ins, output_cmd, f) ==
    LET o == IF output_cmd # <<>>
             THEN [ok |-> TRUE, err |-> "", outfile |-> output_cmd[1],
                   inputs |-> ins]
             ELSE pop_outfile(ins)
        g == group_inputs(o.inputs)
    IN  IF ~o.ok THEN [ok |-> FALSE, val |-> o.err, inputs |-> o.inputs]
        ELSE IF ~g.ok THEN [ok |-> FALSE, val |-> g.val, inputs |-> o.inputs]
        ELSE [ok |-> TRUE,
              val |-> [kind |-> f, inputs |-> g.val, outfile |-> o.outfile],
              inputs |-> o.inputs]

(* The lopdf::Document loaded from a path *)
Document(path) == [kind |-> "Document", val |-> path]

(* load_doc of load_docs: Document::load(&file.0).map(...).ok() *)
sel_load_doc(p, dsk) ==
    IF p.file \in dsk
    THEN <<[file |-> Document(p.file), page_ranges |-> p.page_ranges]>>
    ELSE <<>>

(* inputs.into_iter().filter_map(load_doc).collect() *)
RECURSIVE filter_map_load_doc(_, _)
filter_map_load_doc(ps, dsk) ==
    IF ps = <<>> THEN <<>>
    ELSE sel_load_doc(Head(ps), dsk) \o filter_map_load_doc(Tail(ps), dsk)

(* a load_docs that stops at the first source that does not load *)
load_docs_StopAtFailure(inps, dsk) ==
    LET bad == {k \in DOMAIN inps.inputs : inps.inputs[k].file \notin dsk}
        upto == IF bad = {} THEN Len(inps.inputs)
                ELSE (CHOOSE k \in bad : \A j \in bad : k <= j) - 1
    IN  [inputs |-> filter_map_load_doc(SubSeq(inps.inputs, 1, upto), dsk),
         outfile |-> inps.outfile]

(* load_docs *)
load_docs(inps, dsk) ==
    [inputs |-> filter_map_load_doc(inps.inputs, dsk),
     outfile |-> inps.outfile]

(* sel: Ok(()), nothing loaded and nothing written *)
sel(i) == [result |-> "Ok", written |-> <<>>]

(* padfoot *)
padfoot(c) ==
    IF c.kind = "Sel" THEN sel(c)
    ELSE [result |-> "Not implemented yet", written |-> <<>>]

InitCli ==
    /\ opt_cmd \in {"Cat", "Zip"}
    /\ argv \in ArgLists
    /\ inputs = argv
    /\ output \in {<<>>, <<"o">>}
    /\ command = <<>>
    /\ disk \in SUBSET Paths
    /\ loaded = <<>>
    /\ pc = "options"
    /\ doc = <<>>
    /\ TreeIdle
    /\ CmdIdle
    /\ ParseIdle

(* process_options for OptCmd::Cat and OptCmd::Zip; main returns its error *)
ProcessOptions ==
    /\ pc = "options"
    /\ \E r \in {normalize_inputs(inputs, output,
                                   IF opt_cmd = "Cat" THEN "Sel" ELSE "Zip")} :
         /\ command' = [ok |-> r.ok, val |-> r.val]
         /\ inputs' = r.inputs
         /\ pc' = IF r.ok THEN "command" ELSE "exit"
         /\ result' = IF r.ok THEN "" ELSE r.val
    /\ UNCHANGED <<doc, oid, tree, seen, log, new, page_id, pages_id, err,
                   input, idx, pno, page_map, cur, files, dropped, out,
                   parsevars, opt_cmd, argv, output, disk, loaded>>

(* padfoot(cmd) *)
Padfoot ==
    /\ pc = "command"
    /\ \E r \in {padfoot(command.val)} :
         /\ result' = r.result
         /\ files' = files \o r.written
    /\ pc' = "exit"
    /\ UNCHANGED <<doc, oid, tree, seen, log, new, page_id, pages_id, err,
                   input, idx, pno, page_map, cur, dropped, out,
                   parsevars, clivars>>

(* load_docs(inps) of sel.rs on the arguments of a Sel command *)
LoadDocs ==
    /\ pc = "command"
    /\ command.val.kind = "Sel"
    /\ loaded' = load_docs(command.val, disk)
    /\ pc' = "loaded_docs"
    /\ UNCHANGED <<doc, oid, tree, seen, log, new, page_id, pages_id, err,
                   cmdvars, parsevars, opt_cmd, argv, inputs, output, command,
                   disk>>

NextCli == ProcessOptions \/ Padfoot \/ LoadDocs

SpecCli == InitCli /\ [][NextCli]_vars

----------------------------------------------------------------------------
(* Measures of objects and trees used to state the properties              *)

Range(f) == {f[i] : i \in DOMAIN f}

NoDup(f) == \A i, j \in DOMAIN f : f[i] = f[j] => i = j

RECURSIVE HasOverflow(_)
HasOverflow(t) ==
    CASE t.kind = "Overflow" -> TRUE
      [] t.kind = "Array" -> \E i \in DOMAIN t.val : HasOverflow(t.val[i])
      [] t.kind = "Dictionary" -> \E i \in DOMAIN t.val : HasOverflow(t.val[i][2])
      [] t.kind = "SubTree" -> HasOverflow(t.val)
      [] OTHER -> FALSE

RECURSIVE SumSeq(_)
SumSeq(f) == IF f = <<>> THEN 0 ELSE Head(f) + SumSeq(Tail(f))

(* Number of PDFTree::SubTree nodes of a tree *)
RECURSIVE CountSubTrees(_)
CountSubTrees(t) ==
    CASE t.kind = "Array" -> SumSeq([i \in DOMAIN t.val |-> CountSubTrees(t.val[i])])
      [] t.kind = "Dictionary" ->
           SumSeq([i \in DOMAIN t.val |-> CountSubTrees(t.val[i][2])])
      [] t.kind = "SubTree" -> 1 + CountSubTrees(t.val)
      [] OTHER -> 0

(* Ids of the PDFTree::Reference nodes of a tree (a Stream node is a       *)
(* borrowed lopdf Stream, not tree nodes)                                  *)
RECURSIVE TreeRefs(_)
TreeRefs(t) ==
    CASE t.kind = "Reference" -> {t.val}
      [] t.kind = "Array" -> UNION {TreeRefs(t.val[i]) : i \in DOMAIN t.val}
      [] t.kind = "Dictionary" -> UNION {TreeRefs(t.val[i][2]) : i \in DOMAIN t.val}
      [] t.kind = "SubTree" -> TreeRefs(t.val)
      [] OTHER -> {}

(* Ids referenced anywhere in an object; withParent: also under a "Parent" *)
(* key; withStream: also inside a stream's dictionary                      *)
RECURSIVE RefsOf(_, _, _)
RefsOf(o, withParent, withStream) ==
    CASE o.kind = "Reference" -> {o.val}
      [] o.kind = "Array" ->
           UNION {RefsOf(o.val[i], withParent, withStream) : i \in DOMAIN o.val}
      [] o.kind = "Dictionary" ->
           UNION {IF o.val[i][1] = "Parent" /\ ~withParent THEN {}
                  ELSE RefsOf(o.val[i][2], withParent, withStream)
                    : i \in DOMAIN o.val}
      [] o.kind = "Stream" ->
           IF withStream
           THEN RefsOf(Dictionary(o.val[1]), withParent, withStream)
           ELSE {}
      [] OTHER -> {}

(* Ids reachable from the ids of S by references, in at most n steps *)
RECURSIVE ReachIn(_, _, _, _)
ReachIn(d, S, withStream, n) ==
    IF n = 0 THEN S
    ELSE ReachIn(d, S \cup UNION {RefsOf(d[i], FALSE, withStream)
                                    : i \in S \cap DOMAIN d}, withStream, n - 1)

Reachable(d, root, withStream) == ReachIn(d, {root}, withStream, MaxObj)

Built == pc \in {"tree", "linked", "linked_add"}

Inserted(d) == SelectSeq(d.events, LAMBDA e : e[1] = "insert")

Allocated(d) == SelectSeq(d.events, LAMBDA e : e[1] = "alloc")

(* The source ids copied, in the order tree.rs hands out their new ids:    *)
(* the copy of the k-th of them is the destination object k                *)
CopyOf == <<oid>> \o SelectSeq(log, LAMBDA id : id \in DOMAIN doc)

----------------------------------------------------------------------------
(* C1: PDFTree::new terminates with a finite tree for every document and   *)
(* root, cyclic ones included: the walk never exhausts the stack, looks up *)
(* no more ids than the document refers to, and link_reference inserts no  *)
(* more objects than the source document holds.                            *)
C1_Terminates ==
    Built =>
      /\ ~HasOverflow(tree)
      /\ Len(log) <= MaxObj
      /\ CountSubTrees(tree) < Cardinality(DOMAIN doc)
      /\ pc # "tree" =>
           /\ Len(Inserted(new)) <= Cardinality(DOMAIN doc)
           /\ Cardinality(DOMAIN new.objects) <= Cardinality(DOMAIN doc)

(* a two-object cycle through a key other than "Parent" was extracted *)
C1_Witness ==
    /\ pc = "linked"
    /\ \E b \in DOMAIN doc \ {oid} :
          /\ b \in RefsOf(doc[oid], FALSE, FALSE)
          /\ oid \in RefsOf(doc[b], FALSE, FALSE)

(* C2: no source object is copied twice: every id is looked up at most     *)
(* once in one PDFTree::new call, the tree has one SubTree per looked-up   *)
(* object, every PDFTree::Reference names an id already expanded, and      *)
(* link_reference inserts one destination object per copied object.        *)
C2_ExpandedOnce ==
    Built =>
      /\ NoDup(log)
      /\ oid \notin Range(log)
      /\ seen = {oid} \cup Range(log)
      /\ CountSubTrees(tree) = Len(CopyOf) - 1
      /\ TreeRefs(tree) \subseteq seen
      /\ pc # "tree" =>
           /\ Len(Inserted(new)) = Len(CopyOf)
           /\ DOMAIN new.objects = 1..Len(CopyOf)

(* an object referenced twice from the root: one SubTree, one Reference *)
C2_Witness ==
    /\ pc = "linked"
    /\ \E b \in DOMAIN doc \ {oid} :
          /\ doc[oid] = Array(<<Reference(b), Reference(b)>>)
          /\ tree.val[1].kind = "SubTree"
          /\ tree.val[2] = Reference(b)

(* The references of a destination object t paired with the references at  *)
(* the same places of the source object s it was copied from               *)
RECURSIVE RefPairs(_, _)
RefPairs(s, t) ==
    CASE t.kind = "Reference" ->
           {<<IF s.kind = "Reference" THEN s.val ELSE 0, t.val>>}
      [] t.kind = "Array" /\ s.kind = "Array" ->
           UNION {RefPairs(s.val[i], t.val[i]) : i \in DOMAIN t.val \cap DOMAIN s.val}
      [] t.kind = "Dictionary" /\ s.kind = "Dictionary" ->
           UNION {RefPairs(s.val[i][2], t.val[i][2])
                    : i \in DOMAIN t.val \cap DOMAIN s.val}
      [] t.kind = "Stream" /\ s.kind = "Stream" ->
           RefPairs(Dictionary(s.val[1]), Dictionary(t.val[1]))
      [] OTHER -> {}

(* C3: after PDFTree::new and link_reference into an empty document every  *)
(* reference in a destination object names a destination object, the copy  *)
(* of the source object the reference pointed to.                          *)
C3_Standalone ==
    pc = "linked" =>
      \A k \in DOMAIN new.objects :
        \A p \in RefPairs(doc[CopyOf[k]], new.objects[k]) :
          /\ p[2] \in DOMAIN new.objects
          /\ CopyOf[p[2]] = p[1]

(* C4: every source object reachable from the root by references other     *)
(* than those under a "Parent" key is looked up exactly once, so it is in  *)
(* the tree exactly once directly.                                         *)
C4_ReachableOnce ==
    pc = "tree" =>
      \A id \in (Reachable(doc, oid, TRUE) \cap DOMAIN doc) \ {oid} :
        Cardinality({i \in DOMAIN log : log[i] = id}) = 1

(* C5: every reference met during the walk whose id is absent from the     *)
(* source is Null in the tree: no PDFTree::Reference names an absent id.   *)
C5_MissingIsNull ==
    pc = "tree" => TreeRefs(tree) \subseteq DOMAIN doc

(* C6: PDFTree::new returns Err exactly when the document holds no object *)
(* under the root id, and then produces no tree.                           *)
C6_ErrIffAbsent ==
    /\ pc = "err" => oid \notin DOMAIN doc /\ tree = Null /\ log = <<>>
    /\ pc = "tree" => oid \in DOMAIN doc

(* PDFTree::new was called with a root id the document does not hold *)
C6_Witness == pc = "err" /\ oid \notin DOMAIN doc /\ DOMAIN doc # {}

(* The dictionaries of a tree t against those of the source object s:      *)
(* the same keys in the same order, and Null under "Parent"                *)
RECURSIVE KeysKept(_, _)
KeysKept(s, t) ==
    CASE s.kind = "Dictionary" ->
           /\ t.kind = "Dictionary"
           /\ Len(t.val) = Len(s.val)
           /\ \A i \in DOMAIN s.val :
                /\ t.val[i][1] = s.val[i][1]
                /\ IF s.val[i][1] = "Parent"
                   THEN t.val[i][2] = Null
                   ELSE KeysKept(s.val[i][2], t.val[i][2])
      [] s.kind = "Array" ->
           /\ t.kind = "Array"
           /\ Len(t.val) = Len(s.val)
           /\ \A i \in DOMAIN s.val : KeysKept(s.val[i], t.val[i])
      [] s.kind = "Reference" ->
           t.kind = "SubTree" => KeysKept(doc[s.val], t.val)
      [] OTHER -> TRUE

C8_FreshIds ==
    LET ev == new.events
        al == Allocated(new)
    IN  /\ \A i \in DOMAIN ev :
             ev[i][1] = "insert" =>
               /\ ~ev[i][3]
               /\ \E j \in 1..(i - 1) : ev[j] = <<"alloc", ev[i][2]>>
        /\ \A i, j \in DOMAIN al : i < j => al[i][2] < al[j][2]
        /\ pc \in {"saved", "page_err"} /\ page_id # 0 =>
             /\ al[1][2] = pages_id
             /\ page_id > pages_id
        /\ DOMAIN new.objects = {e[2] : e \in Range(Inserted(new))}

(* burst reserved pages_id and link_reference then inserted a page with a  *)
(* SubTree                                                                 *)
C8_Witness ==
    /\ pc = "saved"
    /\ CountSubTrees(tree) > 0
    /\ Len(Inserted(new)) > 3

(* An object without any Reference and without a "Parent" key *)
RECURSIVE Plain(_)
Plain(o) ==
    CASE o.kind = "Reference" -> FALSE
      [] o.kind = "Array" -> \A i \in DOMAIN o.val : Plain(o.val[i])
      [] o.kind = "Dictionary" ->
           \A i \in DOMAIN o.val : o.val[i][1] # "Parent" /\ Plain(o.val[i][2])
      [] o.kind = "Stream" -> Plain(Dictionary(o.val[1]))
      [] OTHER -> TRUE

(* C9: round trip: a source object without Reference and "Parent" is       *)
(* stored unchanged under the id link_reference returns: same scalars,     *)
(* same element order, same key order.                                     *)
C9_RoundTrip ==
    pc \in {"linked", "linked_add"} /\ Plain(doc[oid]) =>
      /\ page_id \in DOMAIN new.objects
      /\ new.objects[page_id] = doc[oid]

(* the dictionary {A:1, B:2, C:3} went through new and link_reference *)
C9_Witness ==
    /\ pc = "linked"
    /\ doc[oid] = Dictionary(<< <<"A", Integer(1)>>, <<"B", Integer(2)>>,
                                <<"C", Integer(3)>> >>)

(* C10: after a successful page of burst the trailer Root references the   *)
(* Catalog {Type: Catalog, Pages: pages_id}, pages_id holds {Type: Pages,  *)
(* Kids: [page_id], Count: 1, MediaBox: the source page's MediaBox} and    *)
(* the page at page_id has Parent = Reference(pages_id).                   *)
C10_PageTree ==
    pc = "saved" =>
      /\ dict_has(new.trailer, "Root")
      /\ LET root == dict_get(new.trailer, "Root")
         IN  /\ root.kind = "Reference"
             /\ root.val \in DOMAIN new.objects
             /\ new.objects[root.val] =
                  Dictionary(<< <<"Type", Name("Catalog")>>,
                                <<"Pages", Reference(pages_id)>> >>)
      /\ pages_id \in DOMAIN new.objects
      /\ new.objects[pages_id] =
           Dictionary(<< <<"Type", Name("Pages")>>,
                         <<"Kids", Array(<<Reference(page_id)>>)>>,
                         <<"Count", Integer(1)>>,
                         <<"MediaBox", dict_get(doc[oid].val, "MediaBox")>> >>)
      /\ page_id \in DOMAIN new.objects
      /\ page_id # pages_id
      /\ new.objects[page_id].kind = "Dictionary"
      /\ dict_has(new.objects[page_id].val, "Parent")
      /\ dict_get(new.objects[page_id].val, "Parent") = Reference(pages_id)

(* a page whose source "Parent" names another object was burst and saved *)
C10_Witness ==
    /\ pc = "saved"
    /\ dict_has(doc[oid].val, "Parent")
    /\ dict_get(doc[oid].val, "Parent") # Reference(pages_id)

(* The content stream of a page: the stream its "Contents" reference names *)
HasContentStream(objs, id) ==
    /\ id \in DOMAIN objs
    /\ objs[id].kind = "Dictionary"
    /\ dict_has(objs[id].val, "Contents")
    /\ dict_get(objs[id].val, "Contents").kind = "Reference"
    /\ dict_get(objs[id].val, "Contents").val \in DOMAIN objs
    /\ objs[dict_get(objs[id].val, "Contents").val].kind = "Stream"

ContentStream(objs, id) == objs[dict_get(objs[id].val, "Contents").val]

(* What a reader of the stream decodes: the inverse of deflate under       *)
(* Filter FlateDecode, the stored payload otherwise.                       *)
FlateEncoded(s) ==
    /\ dict_has(s.val[1], "Filter")
    /\ dict_get(s.val[1], "Filter") = Name("FlateDecode")

decoded(s) ==
    IF FlateEncoded(s) THEN SubSeq(s.val[2], 3, Len(s.val[2])) ELSE s.val[2]

ContentsEmbedded ==
    /\ tree.kind = "Dictionary"
    /\ dict_has(tree.val, "Contents")
    /\ dict_get(tree.val, "Contents").kind = "SubTree"

CurFile == input[cur[1]]

CurPage == FileObjects(CurFile)[get_pages(load_doc(CurFile))[cur[2]]]

(* The names burst could give the file of page no of the file stem *)
NamesOfPage(stem, no) == {new_name(stem, no, w) : w \in 0..4}

PageErrors ==
    {"Couldn't locate page dictionary", "Couldn't get media box",
     "Couldn't locate page object", "Couldn't save file"}

(* C12: in burst a page whose own dictionary has no MediaBox ends in the   *)
(* error "Couldn't get media box" with no tree built, nothing inserted     *)
(* into the destination document, and no file saved for that page.         *)
C12_MediaBoxFirst ==
    cur # <<>> /\ ~dict_has(CurPage.val, "MediaBox") =>
      /\ err = "Couldn't get media box"
      /\ "Couldn't get media box" \in Range(dropped)
      /\ tree = Null
      /\ seen = {}
      /\ log = <<>>
      /\ DOMAIN new.objects = {}
      /\ Range(files) \cap NamesOfPage(CurFile.stem, cur[2]) = {}

(* the page without MediaBox has a Pages parent with one, and another page *)
(* of the same file was saved                                              *)
C12_Witness ==
    /\ cur # <<>>
    /\ ~dict_has(CurPage.val, "MediaBox")
    /\ dict_has(FileObjects(CurFile)[dict_get(CurPage.val, "Parent").val].val,
                "MediaBox")
    /\ err = "Couldn't get media box"
    /\ files # <<>>

(* C13: once the closure of a page has failed, burst is over: it has       *)
(* returned an error, and the run has written no file.                     *)
C13_FailsWhole ==
    (\E i \in DOMAIN dropped : dropped[i] \in PageErrors) =>
      /\ pc = "returned"
      /\ result # "Ok"
      /\ files = <<>>

(* C15: burst of one file of n pages, none of which fails, has written the *)
(* n files stem_k.pdf, k from 0 to n - 1 padded to ceil(log10(n)) digits.  *)
C15_Names ==
    /\ pc = "returned"
    /\ Len(input) = 1
    /\ input[1].loads /\ input[1].n >= 1
    /\ input[1].nomb = 0 /\ input[1].fail = 0
    => /\ Len(files) = input[1].n
       /\ Range(files) =
            {new_name(input[1].stem, k, ceil_log10(input[1].n)) :
                k \in 0..(input[1].n - 1)}

(* The names of the files of a list that load, and the names after "File"  *)
(* among the lines printed, in order                                       *)
Loadable(fs) ==
    LET ls == SelectSeq(fs, LAMBDA f : f.loads)
    IN  [i \in DOMAIN ls |-> ls[i].stem]

FilesShown(lines) ==
    LET ls == SelectSeq(lines, LAMBDA l : l[1] = "File")
    IN  [i \in DOMAIN ls |-> ls[i][2]]

(* C14: when info has stopped it has returned Ok and has run, in the order *)
(* of the input, for every file that loads.                                *)
C14_NeverAborts ==
    pc \in {"returned", "crashed"} =>
      /\ result = "Ok"
      /\ FilesShown(out) = Loadable(input)

(* C16: number parses the rendering of n to n; inclusive_range parses n-m  *)
(* to (n, m) whatever their order, n to (n, n) and -m to (1, m); each      *)
(* consumes the whole token, and parse_input_element returns the same      *)
(* ranges as PageRange.                                                    *)
C16_RangeForms ==
    \A n \in 0..MaxNum, m \in 0..MaxNum :
      /\ pc = "number" /\ token = format(n) => parsed = POk(n, <<>>)
      /\ pc = "inclusive_range" =>
           /\ token = format(n) \o <<"-">> \o format(m) =>
                parsed = POk(<<n, m>>, <<>>)
           /\ token = format(n) => parsed = POk(<<n, n>>, <<>>)
           /\ token = <<"-">> \o format(m) => parsed = POk(<<1, m>>, <<>>)
      /\ pc = "input_element" =>
           /\ token = format(n) \o <<"-">> \o format(m) =>
                parsed = [ok |-> TRUE, val |-> PageRange(n, m)]
           /\ token = format(n) =>
                parsed = [ok |-> TRUE, val |-> PageRange(n, n)]
           /\ token = <<"-">> \o format(m) =>
                parsed = [ok |-> TRUE, val |-> PageRange(1, m)]

(* inclusive_range has parsed 12-3, a range that runs backwards *)
C16_Witness ==
    /\ pc = "inclusive_range"
    /\ token = <<"1", "2", "-", "3">>
    /\ parsed = POk(<<12, 3>>, <<>>)

(* C17 as stated: parse_input_element returns an error for -- and abc-.    *)
C17_Rejected ==
    pc = "input_element"
      /\ token \in {<<"-", "-">>, <<"a", "b", "c", "-">>}
      => ~parsed.ok

(* C17 amended: parse_input_element returns -- and abc- as File elements;  *)
(* the only token it returns an error for is the empty one.                *)
C17_OnlyEmptyRejected ==
    pc = "input_element" =>
      /\ parsed.ok <=> token # <<>>
      /\ token \in {<<"-", "-">>, <<"a", "b", "c", "-">>} =>
           parsed = [ok |-> TRUE, val |-> File(token)]

(* parse_input_element has returned abc- as a File *)
C17_Witness ==
    /\ pc = "input_element"
    /\ token = <<"a", "b", "c", "-">>
    /\ parsed = [ok |-> TRUE, val |-> File(token)]

(* The position of the last File token of a list (0: none), and the list   *)
(* without the token at position k                                         *)
LastFileAt(is) ==
    IF \E k \in DOMAIN is : is[k].kind = "File"
    THEN CHOOSE k \in DOMAIN is :
           /\ is[k].kind = "File"
           /\ \A j \in DOMAIN is : is[j].kind = "File" => j <= k
    ELSE 0

Without(is, k) == SubSeq(is, 1, k - 1) \o SubSeq(is, k + 1, Len(is))

Normalized == pc \in {"command", "exit"} /\ command # <<>>

(* C18 as stated: the output is the explicit output, the inputs unchanged; *)
(* without one it is the last File token of the list, which leaves the     *)
(* inputs; without a File token normalize_inputs returns an error.         *)
C18_LastPathToken ==
    Normalized =>
      /\ output # <<>> =>
           /\ command.ok
           /\ command.val.outfile = output[1]
           /\ inputs = argv
      /\ output = <<>> /\ LastFileAt(argv) # 0 =>
           /\ command.ok
           /\ command.val.outfile = argv[LastFileAt(argv)].val
           /\ inputs = Without(argv, LastFileAt(argv))
      /\ output = <<>> /\ LastFileAt(argv) = 0 => ~command.ok

(* C18 amended: without an explicit output the output is the last token,   *)
(* which must be a File and leaves the inputs; an empty list and a list    *)
(* that ends with a page range are errors.  The Command holds the groups   *)
(* of the inputs left.                                                     *)
C18_LastToken ==
    Normalized =>
      /\ output # <<>> =>
           /\ command.ok
           /\ command.val.outfile = output[1]
           /\ inputs = argv
      /\ output = <<>> /\ argv # <<>> /\ argv[Len(argv)].kind = "File" =>
           /\ command.ok
           /\ command.val.outfile = argv[Len(argv)].val
           /\ inputs = SubSeq(argv, 1, Len(argv) - 1)
      /\ output = <<>> /\ argv = <<>> =>
           command = [ok |-> FALSE, val |-> "No input supplied."]
      /\ output = <<>> /\ argv # <<>> /\ argv[Len(argv)].kind # "File" =>
           command = [ok |-> FALSE,
                      val |-> "The arguments must finish with an output file name."]
      /\ command.ok => command.val.inputs = group_inputs(inputs).val

(* a list with a File token that ends with a page range was refused *)
C18_Witness ==
    /\ Normalized
    /\ output = <<>>
    /\ LastFileAt(argv) # 0
    /\ argv[Len(argv)].kind = "PageRange"
    /\ ~command.ok

(* C19: a Command returned by normalize_inputs has at least one source.    *)
C19_NonEmpty ==
    Normalized /\ command.ok => command.val.inputs # <<>>

(* The pages a list of sources selects: for each source, in order, its     *)
(* ranges expanded in order, or all of its pages when it has no range.     *)
RECURSIVE Selected(_)
Selected(srcs) ==
    IF srcs = <<>> THEN <<>>
    ELSE LET src == Head(srcs)
             all == [k \in 1..SourcePages |-> <<src.file, k>>]
             expand(r) == [k \in 1..(IF r[2] >= r[1] THEN r[2] - r[1] + 1 ELSE 0)
                             |-> <<src.file, r[1] + k - 1>>]
             of_ranges == join([k \in DOMAIN src.page_ranges |->
                                  expand(src.page_ranges[k])], <<>>)
         IN  (IF src.page_ranges = <<>> THEN all ELSE of_ranges)
               \o Selected(Tail(srcs))

(* C20: when cat has run, the output file has been written, and holds the  *)
(* selected pages of the sources in order.                                 *)
C20_Concatenation ==
    pc = "exit" /\ command.ok /\ command.val.kind = "Sel" =>
      /\ result = "Ok"
      /\ \E k \in DOMAIN files :
           files[k] = [name |-> command.val.outfile,
                       pages |-> Selected(command.val.inputs)]

(* The tokens a list of PDFPages stands for: each file followed by its     *)
(* page ranges                                                             *)
RECURSIVE Ungroup(_)
Ungroup(z) ==
    IF z = <<>> THEN <<>>
    ELSE <<File(Head(z).file)>>
           \o [k \in DOMAIN Head(z).page_ranges |->
                  PageRange(Head(z).page_ranges[k][1], Head(z).page_ranges[k][2])]
           \o Ungroup(Tail(z))

(* C21: the groups group_inputs returns are the token list itself, file by *)
(* file, each with the ranges up to the next file, none dropped or moved;  *)
(* a list that begins with a page range is refused.                        *)
C21_Grouping ==
    Normalized =>
      /\ command.ok => Ungroup(command.val.inputs) = inputs
      /\ inputs # <<>> /\ inputs[1].kind = "PageRange" => ~command.ok

(* C22: the tree of a page of burst is a function of the document and the  *)
(* page alone, whatever pages were extracted before: the page dictionary   *)
(* with Parent as Null and the Resources object, which all pages of the    *)
(* file share, embedded as a SubTree; the seen set holds the page and that *)
(* object only.                                                            *)
C22_Independent ==
    cur # <<>> /\ tree # Null =>
      /\ tree = Dictionary(
           [k \in DOMAIN CurPage.val |->
              <<CurPage.val[k][1],
                CASE CurPage.val[k][1] = "Parent" -> Null
                  [] CurPage.val[k][1] = "Resources" ->
                       SubTree(ResourcesObject(CurFile))
                  [] OTHER -> CurPage.val[k][2]>>])
      /\ seen = {oid, CurFile.n + 3}
      /\ log = <<CurFile.n + 3>>

(* the second page of a file was extracted after the first, whose file was *)
(* saved, and has the shared Resources embedded                            *)
C22_Witness ==
    /\ cur # <<>>
    /\ cur[2] = 2
    /\ Len(files) >= 2
    /\ tree # Null
    /\ dict_get(tree.val, "Resources") = SubTree(ResourcesObject(CurFile))

(* C23: load_docs returns the sources that load, in their order, each with *)
(* its page ranges, and the outfile; a source that does not load is left   *)
(* out and nothing else changes.                                           *)
C23_SkipsUnloadable ==
    pc = "loaded_docs" =>
      LET ok == SelectSeq(command.val.inputs, LAMBDA p : p.file \in disk)
      IN  /\ loaded.outfile = command.val.outfile
          /\ loaded.inputs =
               [k \in DOMAIN ok |->
                  [file |-> Document(ok[k].file),
                   page_ranges |-> ok[k].page_ranges]]

(* a source that does not load stood before one that loads and has a range *)
C23_Witness ==
    /\ pc = "loaded_docs"
    /\ Len(command.val.inputs) = 2
    /\ command.val.inputs[1].file \notin disk
    /\ command.val.inputs[2].file \in disk
    /\ command.val.inputs[2].page_ranges # <<>>
    /\ Len(loaded.inputs) = 1

(* The range grammar on whole tokens: digits, digits-digits or -digits *)
IsDigits(t) == t # <<>> /\ \A k \in DOMAIN t : t[k] \in Range(DigitChars)

IsRangeToken(t) ==
    \/ IsDigits(t)
    \/ \E k \in DOMAIN t :
         /\ t[k] = "-"
         /\ IsDigits(SubSeq(t, k + 1, Len(t)))
         /\ k = 1 \/ IsDigits(SubSeq(t, 1, k - 1))

(* C24: parse_input_element returns a PageRange only for a token that is,  *)
(* as a whole, digits, digits-digits or -digits; every other non-empty     *)
(* token comes back as a File holding the complete token, so no trailing   *)
(* characters are discarded.                                               *)
C24_WholeToken ==
    pc = "input_element" /\ token # <<>> =>
      /\ parsed.ok
      /\ IF IsRangeToken(token)
         THEN parsed.val.kind = "PageRange"
         ELSE parsed.val = File(token)

(* C25: simple_display_object comes to an end for every value of the Info  *)
(* dictionary of every file shown, also when a chain of references leads   *)
(* back into an object being displayed, and a reference to an object the   *)
(* document does not hold gives Err.                                       *)
C25_Terminates ==
    /\ pc # "crashed"
    /\ \A k \in 1..(idx - 1) :
         pc \in {"info", "returned"} /\ input[k].loads =>
           LET d == load_doc(input[k])
               es == get_trail_info(d).entries
           IN  \A e \in DOMAIN es :
                 /\ simple_display_object(d, es[e][2], 0).st # "Overflow"
                 /\ es[e][2].kind = "Reference"
                      /\ es[e][2].val \notin DOMAIN d.objects
                      => simple_display_object(d, es[e][2], 0).st = "Err"

====
